---- MODULE Spec2Model ----
(***************************************************************************)
(* Model of scripts/structural_pipeline.py (subject discovery, conditional *)
(* node creation, connection list, execution by the workflow engine's      *)
(* MultiProc runner, compute_tissue_volumes) and of                        *)
(* scripts/summarize_dataset.py (participants loop, metrics parsing, QC    *)
(* rule, summary CSV).                                                     *)
(*                                                                         *)
(* A string the code inspects (a directory name, a subject id) is a        *)
(* sequence of one-character strings, so that globbing and sorting are     *)
(* computed as Python computes them.  A path is a sequence of such names.  *)
(***************************************************************************)
EXTENDS Integers, Sequences, FiniteSets, TLC

VARIABLES
    cwd,            \* working directory the pipeline script is started in
    fs,             \* tree under bids_root: relative path -> "dir" | "file"
    path_tools,     \* binaries that shutil.which finds on PATH
    pc,             \* position of structural_pipeline.py
    all_subjects,   \* structural_pipeline.py:46
    subjects,       \* structural_pipeline.py:47-51
    created,        \* Node objects constructed so far (by node name)
    connections,    \* structural_pipeline.py:208-248
    wf,             \* graph after wf.connect: [nodes, edges]
    status,         \* engine: <<subject, node>> -> waiting|running|done|failed
    node_inputs,    \* engine: inputs a started node was run with
    node_outputs,   \* engine: outputs of a finished node
    niftis,         \* segmentation images on disk: file -> image
    disk,           \* metrics files on disk: absolute path -> file content
    seg_input,      \* argument list of a direct call of compute_tissue_volumes
    participants,   \* PROJECT_ROOT/ds000246_mri/participants.tsv, or NoFile
    spc,            \* position of summarize_dataset.py
    idx,            \* index of the participants row being processed
    subject_data,   \* summarize_dataset.py:43, the row under construction
    mdf,            \* summarize_dataset.py:56, the metrics table read
    rows,           \* summarize_dataset.py:31
    summary_csv     \* dataset_summary.csv, or NoFile

pvars == <<cwd, fs, path_tools, pc, all_subjects, subjects, created,
           connections, wf, status, node_inputs, node_outputs, niftis>>
svars == <<participants, spc, idx, subject_data, mdf, rows, summary_csv>>
vars == <<pvars, disk, seg_input, svars>>

None == "None"

(***************************************************************************)
(* Strings.                                                                *)
(***************************************************************************)
\* Code point of the characters that occur in the directory names used.
Ord(c) ==
    CASE c = "-" -> 45
      [] c = "0" -> 48
      [] c = "1" -> 49
      [] c = "2" -> 50
      [] c = "S" -> 83
      [] c = "b" -> 98
      [] c = "s" -> 115
      [] c = "u" -> 117

\* Python's str.__lt__: lexicographic by code point, a proper prefix first.
RECURSIVE StrLess(_, _)
StrLess(a, b) ==
    IF a = <<>> THEN b # <<>>
    ELSE IF b = <<>> THEN FALSE
    ELSE IF Head(a) # Head(b) THEN Ord(Head(a)) < Ord(Head(b))
    ELSE StrLess(Tail(a), Tail(b))

\* The least element of a non-empty set of strings.
MinStr(S) == CHOOSE x \in S : \A y \in S : y = x \/ StrLess(x, y)

\* Python's sorted() on a collection of distinct strings.
RECURSIVE sorted(_)
sorted(S) ==
    IF S = {} THEN <<>>
    ELSE LET m == MinStr(S) IN <<m>> \o sorted(S \ {m})

\* fnmatch of a name against the pattern "sub-*" (case-sensitive).
SubPrefix == <<"s", "u", "b", "-">>
MatchesSubStar(name) ==
    /\ Len(name) >= Len(SubPrefix)
    /\ SubSeq(name, 1, Len(SubPrefix)) = SubPrefix

(***************************************************************************)
(* The BIDS tree.                                                          *)
(***************************************************************************)
anat == <<"a", "n", "a", "t">>
T1wSuffix == <<"_T1w.nii.gz">>

\* bids_root / sid / "anat" / f"{sid}_T1w.nii.gz", relative to bids_root.
T1Candidate(sid) == <<sid, anat, sid \o T1wSuffix>>

Exists(tree, p) == p \in DOMAIN tree
IsDir(tree, p) == Exists(tree, p) /\ tree[p] = "dir"

\* Names of the directory entries the model places under bids_root.
Sub10 == <<"s", "u", "b", "-", "1", "0">>
Sub2 == <<"s", "u", "b", "-", "2">>
SubNoDash == <<"s", "u", "b">>
SubUpper == <<"S", "u", "b", "-", "2">>
EntryNames == {Sub10, Sub2, SubNoDash, SubUpper}
EntryKinds == {"absent", "file", "dir", "dirT1"}

EntryPaths(n, k) ==
    CASE k = "absent" -> {}
      [] k = "file" -> {<<n>>}
      [] k = "dir" -> {<<n>>}
      [] k = "dirT1" -> {<<n>>, <<n, anat>>, T1Candidate(n)}

TreeOf(kinds) ==
    LET paths == UNION {EntryPaths(n, kinds[n]) : n \in EntryNames}
    IN [p \in paths |->
          IF Len(p) = 3 \/ (Len(p) = 1 /\ kinds[p[1]] = "file")
          THEN "file" ELSE "dir"]

(***************************************************************************)
(* Subject discovery, structural_pipeline.py:46-54.                        *)
(***************************************************************************)
\* bids_root.glob("sub-*"): the entries directly under bids_root that match.
GlobSubStar(tree) ==
    {p \in DOMAIN tree : Len(p) = 1 /\ MatchesSubStar(p[1])}

AllSubjects(tree) ==
    sorted({p[1] : p \in {q \in GlobSubStar(tree) : IsDir(tree, q)}})

\* The loop of lines 47-51 with the exists() test dropped.
RECURSIVE SubjectsNoT1Test(_, _)
SubjectsNoT1Test(tree, all) ==
    IF all = <<>> THEN <<>>
    ELSE <<Head(all)>> \o SubjectsNoT1Test(tree, Tail(all))

RECURSIVE Subjects(_, _)
Subjects(tree, all) ==
    IF all = <<>> THEN <<>>
    ELSE (IF Exists(tree, T1Candidate(Head(all))) THEN <<Head(all)>> ELSE <<>>)
         \o Subjects(tree, Tail(all))

(***************************************************************************)
(* Paths, structural_pipeline.py:31-38 and 100, 202.                       *)
(***************************************************************************)
\* Directories the pipeline script may be started in; ProjectRoot is the
\* parent of scripts/, which is what summarize_dataset.py:9 resolves.
ProjectRoot == <<<<"project">>>>
Elsewhere == <<<<"project">>, <<"scripts">>>>
WorkingDirs == {ProjectRoot, Elsewhere}

ds000246_mri == <<"ds000246_mri">>
MetricsSuffix == <<"_tissue_volumes.tsv">>

\* bids_root.resolve(): Path("ds000246_mri") is relative to the working directory.
bids_root(dir) == dir \o <<ds000246_mri>>
pipeline_dir(dir) == bids_root(dir) \o <<<<"derivatives">>, <<"mri_pipeline">>>>
\* volume_node.inputs.output_dir, line 202.
output_dir(dir) == pipeline_dir(dir) \o <<<<"metrics">>>>

(***************************************************************************)
(* Tool detection and node creation, structural_pipeline.py:70-203.        *)
(***************************************************************************)
Binaries == {"bet", "fast", "recon-all"}
which(tool) == tool \in path_tools

HAS_FSL_BET == which("bet")
HAS_FSL_FAST == which("fast")
HAS_FREESURFER == which("recon-all")

\* The Node objects the script constructs: three always, three conditionally.
CreatedNodes ==
    {"inputnode", "t1w_resolver", "volume_extraction"}
    \cup (IF HAS_FSL_BET THEN {"bet"} ELSE {})
    \cup (IF HAS_FSL_FAST THEN {"fast"} ELSE {})
    \cup (IF HAS_FREESURFER THEN {"reconall"} ELSE {})

\* The module-level variable holding a node, or None (lines 106, 123, 139).
Handle(name) == IF name \in created THEN name ELSE None

(***************************************************************************)
(* Connections, structural_pipeline.py:208-250.                            *)
(***************************************************************************)
Conn(s, d, o, i) == [src |-> s, dst |-> d, out |-> o, in |-> i]

\* The list with FAST always fed by the T1w resolver, whether or not BET
\* exists (the inner test of line 223 lost).
ConnectionsFastFromT1w(bet, fast, reconall) ==
    <<Conn("inputnode", "t1w_resolver", "subject_id", "subject_id")>>
    \o (IF bet # None
        THEN <<Conn("t1w_resolver", bet, "t1w", "in_file")>> ELSE <<>>)
    \o (IF fast # None
        THEN <<Conn("t1w_resolver", fast, "t1w", "in_files"),
               Conn(fast, "volume_extraction", "partial_volume_files", "seg_files")>>
        ELSE <<>>)
    \o <<Conn("inputnode", "volume_extraction", "subject_id", "subject_id")>>
    \o (IF reconall # None
        THEN <<Conn("t1w_resolver", reconall, "t1w", "T1_files"),
               Conn("inputnode", reconall, "subject_id", "subject_id")>>
        ELSE <<>>)

\* The list with the BET connection appended without the test of line 216.
ConnectionsBetUnguarded(bet, fast, reconall) ==
    <<Conn("inputnode", "t1w_resolver", "subject_id", "subject_id")>>
    \o <<Conn("t1w_resolver", "bet", "t1w", "in_file")>>
    \o (IF fast # None
        THEN (IF bet # None
              THEN <<Conn(bet, fast, "out_file", "in_files")>>
              ELSE <<Conn("t1w_resolver", fast, "t1w", "in_files")>>)
             \o <<Conn(fast, "volume_extraction", "partial_volume_files", "seg_files")>>
        ELSE <<>>)
    \o <<Conn("inputnode", "volume_extraction", "subject_id", "subject_id")>>
    \o (IF reconall # None
        THEN <<Conn("t1w_resolver", reconall, "t1w", "T1_files"),
               Conn("inputnode", reconall, "subject_id", "subject_id")>>
        ELSE <<>>)

\* The list with the else branch of lines 227-230 run as well as the if branch.
ConnectionsFastFromBoth(bet, fast, reconall) ==
    <<Conn("inputnode", "t1w_resolver", "subject_id", "subject_id")>>
    \o (IF bet # None
        THEN <<Conn("t1w_resolver", bet, "t1w", "in_file")>> ELSE <<>>)
    \o (IF fast # None
        THEN (IF bet # None
              THEN <<Conn(bet, fast, "out_file", "in_files")>> ELSE <<>>)
             \o <<Conn("t1w_resolver", fast, "t1w", "in_files")>>
             \o <<Conn(fast, "volume_extraction", "partial_volume_files", "seg_files")>>
        ELSE <<>>)
    \o <<Conn("inputnode", "volume_extraction", "subject_id", "subject_id")>>
    \o (IF reconall # None
        THEN <<Conn("t1w_resolver", reconall, "t1w", "T1_files"),
               Conn("inputnode", reconall, "subject_id", "subject_id")>>
        ELSE <<>>)

\* The value of `connections` when wf.connect is called at line 250.
Connections(bet, fast, reconall) ==
    <<Conn("inputnode", "t1w_resolver", "subject_id", "subject_id")>>
    \o (IF bet # None
        THEN <<Conn("t1w_resolver", bet, "t1w", "in_file")>> ELSE <<>>)
    \o (IF fast # None
        THEN (IF bet # None
              THEN <<Conn(bet, fast, "out_file", "in_files")>>
              ELSE <<Conn("t1w_resolver", fast, "t1w", "in_files")>>)
             \o <<Conn(fast, "volume_extraction", "partial_volume_files", "seg_files")>>
        ELSE <<>>)
    \o <<Conn("inputnode", "volume_extraction", "subject_id", "subject_id")>>
    \o (IF reconall # None
        THEN <<Conn("t1w_resolver", reconall, "t1w", "T1_files"),
               Conn("inputnode", reconall, "subject_id", "subject_id")>>
        ELSE <<>>)

Range(seq) == {seq[i] : i \in DOMAIN seq}

\* wf.connect refuses a node that is not a Node object (a None handle) and a
\* second connection into an input that already has one.
ConnectRaises(conns) ==
    \/ \E i \in DOMAIN conns : conns[i].src \notin created \/ conns[i].dst \notin created
    \/ \E i, j \in DOMAIN conns :
         /\ i # j
         /\ conns[i].dst = conns[j].dst
         /\ conns[i].in = conns[j].in

\* The graph wf.connect builds: the nodes named by a connection, and the edges.
Graph(conns) ==
    [nodes |-> {c.src : c \in Range(conns)} \cup {c.dst : c \in Range(conns)},
     edges |-> Range(conns)]

EmptyGraph == [nodes |-> {}, edges |-> {}]

(***************************************************************************)
(* Tables and TSV files.  A cell is a number, a string or a missing value. *)
(***************************************************************************)
Num(n) == [t |-> "num", s |-> <<>>, n |-> n]
Text(str) == [t |-> "str", s |-> str, n |-> 0]
NA == [t |-> "na", s |-> <<>>, n |-> 0]

NoFile == [header |-> <<"<absent>">>, lines |-> <<>>]
EmptyFile == [header |-> <<>>, lines |-> <<>>]

\* Insertion order of the keys of the `volumes` dict, lines 167 and 161-165.
KeyOrder == <<"subject_id", "CSF", "GM", "WM">>

\* pd.DataFrame([record]).to_csv(sep="\t", index=False): a header line with the
\* record's keys in insertion order and one line with its values.
ToCsv(record) ==
    LET keys == SelectSeq(KeyOrder, LAMBDA k : k \in DOMAIN record)
    IN [header |-> keys, lines |-> <<[i \in DOMAIN keys |-> record[keys[i]]]>>]

\* pd.read_csv(file, sep="\t"): raises on a file without a header line
\* (EmptyDataError); otherwise one row per line, a column per header name.
ReadCsvRaises(file) == file.header = <<>>
ReadCsv(file) ==
    [columns |-> Range(file.header),
     rows |-> [r \in DOMAIN file.lines |->
                 [c \in Range(file.header) |->
                    LET i == CHOOSE i \in DOMAIN file.header : file.header[i] = c
                    IN file.lines[r][i]]]]

(***************************************************************************)
(* compute_tissue_volumes, structural_pipeline.py:155-185.                 *)
(***************************************************************************)
CSFLabel == 0
GMLabel == 1
WMLabel == 2
tissue_labels == [CSF |-> CSFLabel, GM |-> GMLabel, WM |-> WMLabel]
TissueNames == DOMAIN tissue_labels

\* np.sum(data == label)
CountEqual(data, label) == Cardinality({i \in DOMAIN data : data[i] = label})

\* np.prod(img.header.get_zooms())
voxel_volume(img) == img.zooms[1] * img.zooms[2] * img.zooms[3]

\* Line 175.
TissueVolume(img, label) == CountEqual(img.data, label) * voxel_volume(img)

\* The loop of lines 169-175 that keeps the first file's values: a key that
\* is already set is not assigned again.
RECURSIVE VolumesLoopKeepFirst(_, _, _)
VolumesLoopKeepFirst(volumes, seg_files, images) ==
    IF seg_files = <<>> THEN volumes
    ELSE LET img == images[Head(seg_files)]
             next == [k \in DOMAIN volumes \cup TissueNames |->
                        IF k \in DOMAIN volumes THEN volumes[k]
                        ELSE Num(TissueVolume(img, tissue_labels[k]))]
         IN VolumesLoopKeepFirst(next, Tail(seg_files), images)

\* The loop of lines 169-175: each file assigns all three keys.
RECURSIVE VolumesLoop(_, _, _)
VolumesLoop(volumes, seg_files, images) ==
    IF seg_files = <<>> THEN volumes
    ELSE LET img == images[Head(seg_files)]
             next == [k \in DOMAIN volumes \cup TissueNames |->
                        IF k \in TissueNames
                        THEN Num(TissueVolume(img, tissue_labels[k]))
                        ELSE volumes[k]]
         IN VolumesLoop(next, Tail(seg_files), images)

\* The file name of line 182 and the file written at line 183.
MetricsFileName(id) == id \o MetricsSuffix

compute_tissue_volumes(seg_files, subject_id, out_dir, images) ==
    LET volumes == VolumesLoop([subject_id |-> Text(subject_id)], seg_files, images)
    IN [out_file |-> out_dir \o <<MetricsFileName(subject_id)>>,
        content |-> ToCsv(volumes)]

(***************************************************************************)
(* The node interfaces run by the engine.                                  *)
(***************************************************************************)
EmptyRec == [x \in {} |-> TRUE]

Put(f, k, v) == [x \in DOMAIN f \cup {k} |-> IF x = k THEN v ELSE f[x]]

\* get_t1w_path, lines 82-87; the tree holds paths relative to bids_root.
get_t1w_path_raises(subject_id) == ~Exists(fs, T1Candidate(subject_id))
get_t1w_path(subject_id, root) == root \o T1Candidate(subject_id)

\* Output files of the external tools, named after the input they were run on.
BetOutFile(in_file) == [made_by |-> "bet", of |-> in_file, pve |-> 0]
FastPveFile(in_files, k) == [made_by |-> "fast", of |-> in_files, pve |-> k]
FastPveFiles(in_files) == [k \in 1..3 |-> FastPveFile(in_files, k - 1)]

\* Segmentation images FAST may leave in its three partial-volume files.
ImgA == [data |-> <<0, 1, 1, 2, 3>>, zooms |-> <<1, 1, 2>>]
ImgB == [data |-> <<0, 0, 2, 2, 2>>, zooms |-> <<1, 1, 2>>]
ImgC == [data |-> <<1, 3, 3>>, zooms |-> <<2, 1, 3>>]
FastResults == {<<ImgA, ImgB, ImgC>>, <<ImgC, ImgC, ImgA>>}

\* Inputs set on a node when it is constructed (lines 100, 148, 202).
StaticInputs(n) ==
    CASE n = "t1w_resolver" -> [bids_root |-> bids_root(cwd)]
      [] n = "volume_extraction" -> [output_dir |-> output_dir(cwd)]
      [] OTHER -> EmptyRec

(***************************************************************************)
(* Execution, structural_pipeline.py:255-264: wf.run(plugin="MultiProc").  *)
(* The engine expands the graph once per value of inputnode's iterable     *)
(* (line 75) and runs a node of a copy when every node connected into it   *)
(* has finished in that copy and a process is free.                        *)
(***************************************************************************)
NProcs == 4

SubjectSet == Range(subjects)
RunNodes == wf.nodes \ {"inputnode"}
EdgesInto(n) == {e \in wf.edges : e.dst = n}

\* Nodes connected into n, the iterable source excepted: it holds no work.
Upstream(n) == {e.src : e \in EdgesInto(n)} \ {"inputnode"}

Running == {k \in DOMAIN status : status[k] = "running"}

\* The values a node of subject s's copy receives over its connections.
ConnectedInputs(s, n) ==
    [f \in {e.in : e \in EdgesInto(n)} |->
       LET e == CHOOSE e \in EdgesInto(n) : e.in = f
       IN IF e.src = "inputnode" THEN s ELSE node_outputs[<<s, e.src>>][e.out]]

CanStart(s, n) ==
    /\ status[<<s, n>>] = "waiting"
    /\ \A u \in Upstream(n) : status[<<s, u>>] = "done"
    /\ Cardinality(Running) < NProcs

(***************************************************************************)
(* structural_pipeline.py as a process.                                    *)
(***************************************************************************)
NoTable == [header |-> <<"participant_id">>, lines |-> <<>>]
NoSummary == [columns |-> {"<absent>"}, rows |-> <<>>]

SummaryIdle ==
    /\ spc = "idle"
    /\ idx = 0
    /\ subject_data = EmptyRec
    /\ mdf = ReadCsv(NoTable)
    /\ rows = <<>>
    /\ summary_csv = NoSummary

PipelineAtStart ==
    /\ pc = "start"
    /\ all_subjects = <<>>
    /\ subjects = <<>>
    /\ created = {}
    /\ connections = <<>>
    /\ wf = EmptyGraph
    /\ status = EmptyRec
    /\ node_inputs = EmptyRec
    /\ node_outputs = EmptyRec

\* Lines 46-54.
Discover ==
    /\ pc = "start"
    /\ all_subjects' = AllSubjects(fs)
    /\ subjects' = Subjects(fs, all_subjects')
    /\ pc' = IF subjects' = <<>> THEN "raised" ELSE "discovered"
    /\ UNCHANGED <<cwd, fs, path_tools, created, connections, wf, status,
                   node_inputs, node_outputs, niftis, disk, seg_input, svars>>

\* Lines 62-203.
CreateNodes ==
    /\ pc = "discovered"
    /\ created' = CreatedNodes
    /\ pc' = "created"
    /\ UNCHANGED <<cwd, fs, path_tools, all_subjects, subjects, connections, wf,
                   status, node_inputs, node_outputs, niftis, disk, seg_input, svars>>

\* Lines 208-250.
Connect ==
    /\ pc = "created"
    /\ connections' = Connections(Handle("bet"), Handle("fast"), Handle("reconall"))
    /\ IF ConnectRaises(connections')
       THEN pc' = "connect_raised" /\ wf' = wf
       ELSE pc' = "built" /\ wf' = Graph(connections')
    /\ UNCHANGED <<cwd, fs, path_tools, all_subjects, subjects, created, status,
                   node_inputs, node_outputs, niftis, disk, seg_input, svars>>

\* Lines 255-264: the engine expands the graph over the subjects.
Run ==
    /\ pc = "built"
    /\ pc' = "running"
    /\ status' = [k \in SubjectSet \X RunNodes |-> "waiting"]
    /\ node_inputs' = [k \in SubjectSet \X RunNodes |-> EmptyRec]
    /\ node_outputs' = [k \in SubjectSet \X RunNodes |-> EmptyRec]
    /\ UNCHANGED <<cwd, fs, path_tools, all_subjects, subjects, created,
                   connections, wf, niftis, disk, seg_input, svars>>

EngineUnchanged ==
    UNCHANGED <<cwd, fs, path_tools, pc, all_subjects, subjects, created,
                connections, wf, seg_input, svars>>

StartNode(s, n) ==
    /\ pc = "running"
    /\ CanStart(s, n)
    /\ status' = [status EXCEPT ![<<s, n>>] = "running"]
    /\ node_inputs' =
         [node_inputs EXCEPT ![<<s, n>>] = ConnectedInputs(s, n) @@ StaticInputs(n)]
    /\ UNCHANGED <<node_outputs, niftis, disk>>
    /\ EngineUnchanged

IsRunning(s, n) ==
    /\ pc = "running"
    /\ <<s, n>> \in DOMAIN status
    /\ status[<<s, n>>] = "running"

Succeed(s, n, outputs) ==
    /\ status' = [status EXCEPT ![<<s, n>>] = "done"]
    /\ node_outputs' = [node_outputs EXCEPT ![<<s, n>>] = outputs]

Crash(s, n) ==
    /\ status' = [status EXCEPT ![<<s, n>>] = "failed"]
    /\ UNCHANGED node_outputs

FinishT1wResolver(s) ==
    LET in == node_inputs[<<s, "t1w_resolver">>] IN
    /\ IsRunning(s, "t1w_resolver")
    /\ IF get_t1w_path_raises(in.subject_id)
       THEN Crash(s, "t1w_resolver")
       ELSE Succeed(s, "t1w_resolver",
                    [t1w |-> get_t1w_path(in.subject_id, in.bids_root)])
    /\ UNCHANGED <<node_inputs, niftis, disk>>
    /\ EngineUnchanged

\* bet either writes its output file or exits with an error.
FinishBet(s) ==
    LET in == node_inputs[<<s, "bet">>] IN
    /\ IsRunning(s, "bet")
    /\ \/ Succeed(s, "bet", [out_file |-> BetOutFile(in.in_file)])
       \/ Crash(s, "bet")
    /\ UNCHANGED <<node_inputs, niftis, disk>>
    /\ EngineUnchanged

\* fast either writes its three partial-volume files or exits with an error.
FinishFast(s) ==
    LET in == node_inputs[<<s, "fast">>]
        files == FastPveFiles(in.in_files) IN
    /\ IsRunning(s, "fast")
    /\ \/ \E imgs \in FastResults :
            /\ Succeed(s, "fast", [partial_volume_files |-> files])
            /\ niftis' = [f \in DOMAIN niftis \cup Range(files) |->
                            IF f \in Range(files)
                            THEN imgs[CHOOSE k \in DOMAIN files : files[k] = f]
                            ELSE niftis[f]]
       \/ Crash(s, "fast") /\ UNCHANGED niftis
    /\ UNCHANGED <<node_inputs, disk>>
    /\ EngineUnchanged

FinishReconall(s) ==
    /\ IsRunning(s, "reconall")
    /\ \/ Succeed(s, "reconall", [subject_id |-> node_inputs[<<s, "reconall">>].subject_id])
       \/ Crash(s, "reconall")
    /\ UNCHANGED <<node_inputs, niftis, disk>>
    /\ EngineUnchanged

\* The Function interface calls compute_tissue_volumes with the inputs that are
\* defined; without seg_files the call raises TypeError (a missing argument).
FinishVolumeExtraction(s) ==
    LET in == node_inputs[<<s, "volume_extraction">>] IN
    /\ IsRunning(s, "volume_extraction")
    /\ IF "seg_files" \notin DOMAIN in
       THEN Crash(s, "volume_extraction") /\ UNCHANGED disk
       ELSE LET r == compute_tissue_volumes(in.seg_files, in.subject_id,
                                            in.output_dir, niftis)
            IN /\ Succeed(s, "volume_extraction", [out_file |-> r.out_file])
               /\ disk' = Put(disk, r.out_file, r.content)
    /\ UNCHANGED <<node_inputs, niftis>>
    /\ EngineUnchanged

\* wf.run returns (or raises, when a node crashed) once nothing runs and
\* nothing more can be started.
EndRun ==
    /\ pc = "running"
    /\ Running = {}
    /\ \A k \in DOMAIN status : ~CanStart(k[1], k[2])
    /\ pc' = IF \E k \in DOMAIN status : status[k] = "failed"
             THEN "run_raised" ELSE "finished"
    /\ UNCHANGED <<cwd, fs, path_tools, all_subjects, subjects, created,
                   connections, wf, status, node_inputs, node_outputs, niftis,
                   disk, seg_input, svars>>

PipelineNext ==
    \/ Discover
    \/ CreateNodes
    \/ Connect
    \/ Run
    \/ \E k \in DOMAIN status : StartNode(k[1], k[2])
    \/ \E s \in SubjectSet : FinishT1wResolver(s)
    \/ \E s \in SubjectSet : FinishBet(s)
    \/ \E s \in SubjectSet : FinishFast(s)
    \/ \E s \in SubjectSet : FinishReconall(s)
    \/ \E s \in SubjectSet : FinishVolumeExtraction(s)
    \/ EndRun

PipelineEnded == pc \in {"raised", "connect_raised", "run_raised", "finished"}

(***************************************************************************)
(* summarize_dataset.py.                                                   *)
(***************************************************************************)
\* Lines 9-21: PROJECT_ROOT is the parent of the directory holding the script.
PROJECT_ROOT == ProjectRoot
BIDS_ROOT == PROJECT_ROOT \o <<ds000246_mri>>
DERIVATIVES_DIR == BIDS_ROOT \o <<<<"derivatives">>, <<"mri_pipeline">>>>
METRICS_DIR == DERIVATIVES_DIR \o <<<<"metrics">>>>

NotApplicable == Text(<<"n/a">>)

\* Line 41.
metrics_tsv(sub_id) == METRICS_DIR \o <<sub_id \o MetricsSuffix>>

\* row.get(key, "n/a"), lines 45-47.
RowGet(row, key) == IF key \in DOMAIN row THEN row[key] ELSE NotApplicable

\* float(mdf.iloc[0].get(col, float("nan"))), lines 58-60: IndexError on a
\* table without rows, ValueError on a cell that is not a number.
FloatRaises(table, col) ==
    \/ Len(table.rows) = 0
    \/ col \in table.columns /\ table.rows[1][col].t = "str"

FloatOf(table, col) ==
    IF col \in table.columns THEN table.rows[1][col] ELSE NA

\* A QC rule that also asks for a parsed GM volume.
QcPassNeedsVolumes(data) ==
    data.metrics_exists /\ "GM" \in DOMAIN data /\ data.GM.t = "num"

\* Line 67.
QcPass(data) == data.metrics_exists

\* An except clause that fills in only the keys the try block had not set.
ExceptFillMissing(data) ==
    [k \in DOMAIN data \cup TissueNames |->
       IF k \in DOMAIN data THEN data[k] ELSE NotApplicable]

\* Lines 61-64.
ExceptHandler(data) ==
    [k \in DOMAIN data \cup TissueNames |->
       IF k \in TissueNames THEN NotApplicable ELSE data[k]]

\* pd.DataFrame(rows): a column per key that occurs, a missing value where a
\* row lacks the key.  A DataFrame that drops repeated participant ids.
RECURSIVE DataFrameDropDuplicates(_)
DataFrameDropDuplicates(dicts) ==
    IF dicts = <<>> THEN [columns |-> {}, rows |-> <<>>]
    ELSE LET rest == DataFrameDropDuplicates(SubSeq(dicts, 1, Len(dicts) - 1))
             last == dicts[Len(dicts)]
             cols == rest.columns \cup DOMAIN last
             fill(d) == [c \in cols |-> IF c \in DOMAIN d THEN d[c] ELSE NA]
         IN IF \E i \in DOMAIN rest.rows :
                 rest.rows[i].participant_id = last.participant_id
            THEN [columns |-> cols,
                  rows |-> [i \in DOMAIN rest.rows |-> fill(rest.rows[i])]]
            ELSE [columns |-> cols,
                  rows |-> [i \in DOMAIN dicts |->
                              IF i = Len(dicts) THEN fill(last)
                              ELSE fill(rest.rows[i])]]

DataFrame(dicts) ==
    LET cols == UNION {DOMAIN dicts[i] : i \in DOMAIN dicts}
    IN [columns |-> cols,
        rows |-> [i \in DOMAIN dicts |->
                    [c \in cols |-> IF c \in DOMAIN dicts[i] THEN dicts[i][c] ELSE NA]]]

PTable == ReadCsv(participants)

SummaryUnchanged == UNCHANGED <<pvars, disk, seg_input, participants>>

\* Lines 26-31.
LoadParticipants ==
    /\ spc = "start"
    /\ spc' = IF participants = NoFile THEN "raised_not_found"
              ELSE IF ReadCsvRaises(participants) THEN "raised_read"
              ELSE "loop"
    /\ idx' = 1
    /\ UNCHANGED <<subject_data, mdf, rows, summary_csv>>
    /\ SummaryUnchanged

\* Lines 36-51; a table without a participant_id column raises KeyError.
BeginRow ==
    /\ spc = "loop"
    /\ idx <= Len(PTable.rows)
    /\ LET row == PTable.rows[idx] IN
       IF "participant_id" \notin DOMAIN row
       THEN spc' = "raised_key" /\ UNCHANGED subject_data
       ELSE LET sub_id == row["participant_id"]
                found == metrics_tsv(sub_id.s) \in DOMAIN disk
            IN /\ subject_data' =
                    [participant_id |-> sub_id,
                     age |-> RowGet(row, "age"),
                     sex |-> RowGet(row, "sex"),
                     dominant_hand |-> RowGet(row, "dominant_hand"),
                     metrics_exists |-> found]
               /\ spc' = IF found THEN "try" ELSE "qc"
    /\ UNCHANGED <<idx, mdf, rows, summary_csv>>
    /\ SummaryUnchanged

\* Line 56.
TryRead ==
    /\ spc = "try"
    /\ LET file == disk[metrics_tsv(subject_data.participant_id.s)] IN
       IF ReadCsvRaises(file)
       THEN spc' = "except" /\ UNCHANGED mdf
       ELSE spc' = "csf" /\ mdf' = ReadCsv(file)
    /\ UNCHANGED <<idx, subject_data, rows, summary_csv>>
    /\ SummaryUnchanged

\* One of lines 58, 59, 60.
SetVolume(at, col, then) ==
    /\ spc = at
    /\ IF FloatRaises(mdf, col)
       THEN spc' = "except" /\ UNCHANGED subject_data
       ELSE spc' = then /\ subject_data' = Put(subject_data, col, FloatOf(mdf, col))
    /\ UNCHANGED <<idx, mdf, rows, summary_csv>>
    /\ SummaryUnchanged

SetCSF == SetVolume("csf", "CSF", "gm")
SetGM == SetVolume("gm", "GM", "wm")
SetWM == SetVolume("wm", "WM", "qc")

\* Lines 61-64.
Except ==
    /\ spc = "except"
    /\ subject_data' = ExceptHandler(subject_data)
    /\ spc' = "qc"
    /\ UNCHANGED <<idx, mdf, rows, summary_csv>>
    /\ SummaryUnchanged

\* Lines 67-69.
AppendRow ==
    /\ spc = "qc"
    /\ rows' = Append(rows, Put(subject_data, "qc_pass", QcPass(subject_data)))
    /\ idx' = idx + 1
    /\ spc' = "loop"
    /\ UNCHANGED <<subject_data, mdf, summary_csv>>
    /\ SummaryUnchanged

\* Lines 74-75.
WriteSummary ==
    /\ spc = "loop"
    /\ idx > Len(PTable.rows)
    /\ summary_csv' = DataFrame(rows)
    /\ spc' = "written"
    /\ UNCHANGED <<idx, subject_data, mdf, rows>>
    /\ SummaryUnchanged

\* Lines 77-79; summary_df['qc_pass'] raises KeyError on a summary without rows.
PrintSummary ==
    /\ spc = "written"
    /\ spc' = IF "qc_pass" \in summary_csv.columns THEN "done" ELSE "raised_print"
    /\ UNCHANGED <<idx, subject_data, mdf, rows, summary_csv>>
    /\ SummaryUnchanged

SummaryNext ==
    \/ LoadParticipants
    \/ BeginRow
    \/ TryRead
    \/ SetCSF
    \/ SetGM
    \/ SetWM
    \/ Except
    \/ AppendRow
    \/ WriteSummary
    \/ PrintSummary

(***************************************************************************)
(* Specifications.                                                         *)
(***************************************************************************)
MaxRows == 2
MaxFiles == 2
MaxVoxels == 2

NoCall == [files |-> <<>>, subject_id |-> <<>>, output_dir |-> <<>>, returned |-> <<"-">>]

Trees == {TreeOf(k) : k \in [EntryNames -> EntryKinds]}

\* The pipeline script alone, on every tree and every set of installed tools.
Init ==
    /\ cwd \in WorkingDirs
    /\ fs \in Trees
    /\ path_tools \in SUBSET Binaries
    /\ PipelineAtStart
    /\ niftis = EmptyRec
    /\ disk = EmptyRec
    /\ seg_input = NoCall
    /\ participants = NoFile
    /\ SummaryIdle

Next == PipelineNext

Spec == Init /\ [][Next]_vars

\* participants.tsv files.
ParticipantIds == {Sub10, Sub2, SubUpper}
ParticipantHeaders ==
    {<<"participant_id", "age", "sex", "dominant_hand">>,
     <<"participant_id">>,
     <<"age", "sex">>}
ParticipantCell(col, id) ==
    CASE col = "participant_id" -> Text(id)
      [] col = "age" -> Num(25)
      [] col = "sex" -> Text(<<"F">>)
      [] OTHER -> Text(<<"R">>)
ParticipantsFile(header, ids) ==
    [header |-> header,
     lines |-> [i \in DOMAIN ids |->
                  [j \in DOMAIN header |-> ParticipantCell(header[j], ids[i])]]]
IdLists == UNION {[1..n -> ParticipantIds] : n \in 0..MaxRows}
ParticipantsFiles ==
    {NoFile, EmptyFile}
    \cup {ParticipantsFile(h, ids) : h \in ParticipantHeaders, ids \in IdLists}

\* Metrics files that may lie in METRICS_DIR: any subset of the tissue columns,
\* each cell of the first line a number, a missing value or text; one or two
\* lines; also a file with a header only and an empty file.
CellKinds == {"missing", "num", "na", "str"}
TissueCell(col, kind) ==
    CASE kind = "num" -> Num(10 * (tissue_labels[col] + 1))
      [] kind = "na" -> NA
      [] OTHER -> Text(<<"x">>)
MetricsFile(id, kinds, nlines) ==
    LET header == SelectSeq(KeyOrder, LAMBDA k : k = "subject_id" \/ kinds[k] # "missing")
        first == [j \in DOMAIN header |->
                    IF header[j] = "subject_id" THEN Text(id)
                    ELSE TissueCell(header[j], kinds[header[j]])]
        second == [j \in DOMAIN header |->
                    IF header[j] = "subject_id" THEN Text(id) ELSE Num(99)]
    IN [header |-> header,
        lines |-> IF nlines = 1 THEN <<first>> ELSE <<first, second>>]
MetricsFiles(id) ==
    {EmptyFile, [header |-> KeyOrder, lines |-> <<>>]}
    \cup {MetricsFile(id, kinds, n) : kinds \in [TissueNames -> CellKinds], n \in 1..2}

SummaryDisks ==
    {EmptyRec}
    \cup {[p \in {metrics_tsv(Sub2)} |-> f] : f \in MetricsFiles(Sub2)}
    \cup {[p \in {metrics_tsv(Sub2), metrics_tsv(Sub10)} |->
             IF p = metrics_tsv(Sub2) THEN f
             ELSE MetricsFile(Sub10, [k \in TissueNames |-> "num"], 1)]
          : f \in MetricsFiles(Sub2)}

SummaryAtStart ==
    /\ spc = "start"
    /\ idx = 0
    /\ subject_data = EmptyRec
    /\ mdf = ReadCsv(NoTable)
    /\ rows = <<>>
    /\ summary_csv = NoSummary

\* The summary script alone, on every participants file and metrics directory.
InitSummary ==
    /\ cwd = ProjectRoot
    /\ fs = TreeOf([n \in EntryNames |-> "absent"])
    /\ path_tools = {}
    /\ PipelineAtStart
    /\ niftis = EmptyRec
    /\ disk \in SummaryDisks
    /\ seg_input = NoCall
    /\ participants \in ParticipantsFiles
    /\ SummaryAtStart

SpecSummary == InitSummary /\ [][SummaryNext]_vars

\* A direct call of compute_tissue_volumes on a list of segmentation files.
VoxelValues == {0, 1, 2, 3}
VoxelData == UNION {[1..n -> VoxelValues] : n \in 0..MaxVoxels}
\* The files of one call lie on one voxel grid: they share their zooms.
ZoomChoices == {<<1, 1, 2>>, <<2, 1, 3>>}
SegFileName(i) == FastPveFile(<<>>, i)

InitVolumes ==
    /\ cwd = ProjectRoot
    /\ fs = TreeOf([n \in EntryNames |-> "absent"])
    /\ path_tools = {}
    /\ PipelineAtStart
    /\ disk = EmptyRec
    /\ \E n \in 0..MaxFiles :
         /\ seg_input = [files |-> [i \in 1..n |-> SegFileName(i)],
                         subject_id |-> Sub2,
                         output_dir |-> output_dir(ProjectRoot),
                         returned |-> <<"-">>]
         /\ \E z \in ZoomChoices :
              niftis \in [{SegFileName(i) : i \in 1..n} ->
                            {[data |-> d, zooms |-> z] : d \in VoxelData}]
    /\ participants = NoFile
    /\ SummaryIdle

CallComputeTissueVolumes ==
    /\ seg_input.returned = <<"-">>
    /\ LET r == compute_tissue_volumes(seg_input.files, seg_input.subject_id,
                                       seg_input.output_dir, niftis)
       IN /\ disk' = Put(disk, r.out_file, r.content)
          /\ seg_input' = [seg_input EXCEPT !.returned = <<"returned">>]
    /\ UNCHANGED <<pvars, svars>>

SpecVolumes == InitVolumes /\ [][CallComputeTissueVolumes]_vars

\* The pipeline script followed by a run of the summary script.
HandoffTrees ==
    {TreeOf(k) : k \in {q \in [EntryNames -> EntryKinds] :
                          /\ q[SubNoDash] = "absent"
                          /\ q[SubUpper] = "absent"
                          /\ q[Sub10] \in {"absent", "dirT1"}
                          /\ q[Sub2] \in {"dir", "dirT1"}}}
HandoffParticipants ==
    {ParticipantsFile(<<"participant_id", "age", "sex", "dominant_hand">>, ids)
       : ids \in {<<Sub10, Sub2>>, <<Sub2>>, <<SubUpper, Sub2>>}}
\* METRICS_DIR is empty or holds an empty file left by something else.
HandoffDisks == {EmptyRec, [p \in {metrics_tsv(SubUpper)} |-> EmptyFile]}

InitHandoff ==
    /\ cwd \in WorkingDirs
    /\ fs \in HandoffTrees
    /\ path_tools \in SUBSET Binaries
    /\ PipelineAtStart
    /\ niftis = EmptyRec
    /\ disk \in HandoffDisks
    /\ seg_input = NoCall
    /\ participants \in HandoffParticipants
    /\ SummaryIdle

RunSummary ==
    /\ PipelineEnded
    /\ spc = "idle"
    /\ spc' = "start"
    /\ UNCHANGED <<pvars, disk, seg_input, participants, idx, subject_data, mdf,
                   rows, summary_csv>>

NextHandoff == PipelineNext \/ RunSummary \/ SummaryNext

SpecHandoff == InitHandoff /\ [][NextHandoff]_vars

(***************************************************************************)
(* Properties of structural_pipeline.py, checked under Spec.               *)
(***************************************************************************)
\* The sub-* directories directly under the BIDS root that hold their T1w file.
SubStarDirsWithT1 ==
    {n \in EntryNames :
       /\ Len(n) >= 4
       /\ n[1] = "s" /\ n[2] = "u" /\ n[3] = "b" /\ n[4] = "-"
       /\ <<n>> \in DOMAIN fs
       /\ fs[<<n>>] = "dir"
       /\ <<n, anat, n \o T1wSuffix>> \in DOMAIN fs}

\* C1: once discovery has run, the subject list holds exactly the sub-*
\* directories under the BIDS root that contain anat/<sid>_T1w.nii.gz, in
\* strictly ascending order; the engine iterates over exactly that list; and
\* with an empty list the script has raised with no node created, no
\* connection made and nothing run.
C1_SubjectDiscovery ==
    /\ pc # "start" =>
         /\ Range(subjects) = SubStarDirsWithT1
         /\ \A i, j \in DOMAIN subjects : i < j => StrLess(subjects[i], subjects[j])
         /\ subjects = <<>> => pc = "raised"
    /\ pc = "raised" =>
         /\ created = {}
         /\ connections = <<>>
         /\ wf = EmptyGraph
         /\ DOMAIN status = {}
    /\ pc \in {"running", "finished", "run_raised"} =>
         {k[1] : k \in DOMAIN status} = Range(subjects)

\* Two subjects are discovered and sorted ("sub-10" before "sub-2") while a
\* directory Sub-2 with a T1w file and the entry sub are left out.
C1_Witness ==
    /\ pc = "running"
    /\ subjects = <<Sub10, Sub2>>
    /\ T1Candidate(SubUpper) \in DOMAIN fs
    /\ <<SubNoDash>> \in DOMAIN fs

NodeOfBinary(b) ==
    CASE b = "bet" -> "bet"
      [] b = "fast" -> "fast"
      [] b = "recon-all" -> "reconall"

NodesNamedBy(conns) ==
    {conns[i].src : i \in DOMAIN conns} \cup {conns[i].dst : i \in DOMAIN conns}

AfterConnect == pc \in {"connect_raised", "built", "running", "finished", "run_raised"}

\* C2: after the connection list is built, a tool's node is named by a
\* connection (and is a node of the workflow) if and only if its binary is
\* on PATH; wf.connect never raises; the script raises before the workflow is
\* built only when no subject was found, whatever tools are installed.
C2_ConditionalSkipping ==
    /\ AfterConnect =>
         \A b \in Binaries :
            /\ NodeOfBinary(b) \in NodesNamedBy(connections) <=> b \in path_tools
            /\ NodeOfBinary(b) \in wf.nodes <=> b \in path_tools
    /\ pc # "connect_raised"
    /\ pc = "raised" => subjects = <<>>

\* With no tool installed the workflow is built from the three fixed nodes.
C2_Witness ==
    /\ pc = "built"
    /\ path_tools = {}
    /\ wf.nodes = {"inputnode", "t1w_resolver", "volume_extraction"}

\* C3: whenever volume_extraction is a node of the workflow its seg_files
\* input is connected to fast.partial_volume_files, and it never runs for a
\* subject without that input.
C3_VolumeExtractionFedByFast ==
    /\ "volume_extraction" \in wf.nodes =>
         Conn("fast", "volume_extraction", "partial_volume_files", "seg_files")
           \in wf.edges
    /\ \A k \in DOMAIN status :
         k[2] = "volume_extraction" /\ status[k] # "waiting" =>
           "seg_files" \in DOMAIN node_inputs[k]

Started(s, n) == <<s, n>> \in DOMAIN status /\ status[<<s, n>>] # "waiting"
Done(s, n) == <<s, n>> \in DOMAIN status /\ status[<<s, n>>] = "done"

\* C6: in every state of a MultiProc run, a node that has started for a
\* subject has every node connected into it finished for that subject: the
\* T1w resolver before BET and recon-all, BET before FAST when both tools are
\* installed, FAST before volume extraction when FAST is installed; each
\* connected input holds the output of the same subject's upstream node and
\* of no other subject's; at most NProcs nodes run at once.
C6_PerSubjectOrdering ==
    /\ Cardinality(Running) <= NProcs
    /\ \A k \in DOMAIN status :
         LET s == k[1]
             n == k[2]
         IN status[k] # "waiting" =>
              /\ \A e \in wf.edges :
                   e.dst = n /\ e.src # "inputnode" => Done(s, e.src)
              /\ n \in {"bet", "reconall"} => Done(s, "t1w_resolver")
              /\ n = "fast" /\ {"bet", "fast"} \subseteq path_tools => Done(s, "bet")
              /\ n = "volume_extraction" /\ "fast" \in path_tools => Done(s, "fast")
              /\ \A e \in wf.edges :
                   e.dst = n =>
                     /\ e.in \in DOMAIN node_inputs[k]
                     /\ IF e.src = "inputnode"
                        THEN node_inputs[k][e.in] = s
                        ELSE /\ node_inputs[k][e.in] = node_outputs[<<s, e.src>>][e.out]
                             /\ \A s2 \in SubjectSet \ {s} :
                                  e.out \in DOMAIN node_outputs[<<s2, e.src>>] =>
                                    node_inputs[k][e.in] # node_outputs[<<s2, e.src>>][e.out]

\* Two subjects interleave: FAST runs for sub-10 while sub-2 is already through
\* volume extraction, all three tools installed.
C6_Witness ==
    /\ path_tools = Binaries
    /\ Started(Sub10, "fast") /\ status[<<Sub10, "fast">>] = "running"
    /\ Done(Sub2, "volume_extraction")
    /\ Done(Sub2, "bet")

IncomingTo(conns, node, input) ==
    {i \in DOMAIN conns : conns[i].dst = node /\ conns[i].in = input}

\* C8: in the connection list, FAST (when installed) has exactly one
\* connection into in_files, from bet.out_file when BET is installed and from
\* t1w_resolver.t1w otherwise; recon-all (when installed) has exactly the
\* connections t1w_resolver.t1w -> T1_files and inputnode.subject_id ->
\* subject_id, whatever else is installed.
C8_InputSources ==
    AfterConnect =>
      /\ "fast" \in path_tools =>
           /\ Cardinality(IncomingTo(connections, "fast", "in_files")) = 1
           /\ {connections[i] : i \in {j \in DOMAIN connections : connections[j].dst = "fast"}}
                = {IF "bet" \in path_tools
                   THEN [src |-> "bet", dst |-> "fast", out |-> "out_file", in |-> "in_files"]
                   ELSE [src |-> "t1w_resolver", dst |-> "fast", out |-> "t1w", in |-> "in_files"]}
      /\ "recon-all" \in path_tools =>
           /\ Cardinality({j \in DOMAIN connections : connections[j].dst = "reconall"}) = 2
           /\ {connections[i] : i \in {j \in DOMAIN connections : connections[j].dst = "reconall"}}
                = {[src |-> "t1w_resolver", dst |-> "reconall", out |-> "t1w", in |-> "T1_files"],
                   [src |-> "inputnode", dst |-> "reconall", out |-> "subject_id", in |-> "subject_id"]}

\* BET, FAST and recon-all are all installed and connected; FAST has run on
\* BET's output while recon-all has run on the resolver's.
C8_Witness ==
    /\ path_tools = Binaries
    /\ Started(Sub2, "fast") /\ Started(Sub2, "reconall")
    /\ node_inputs[<<Sub2, "fast">>].in_files = node_outputs[<<Sub2, "bet">>].out_file
    /\ node_inputs[<<Sub2, "reconall">>].T1_files = node_outputs[<<Sub2, "t1w_resolver">>].t1w

(***************************************************************************)
(* Properties of summarize_dataset.py, checked under SpecSummary.          *)
(***************************************************************************)
SummaryWritten == spc \in {"written", "done", "raised_print"}
RaisedBeforeLoopEnd == spc \in {"raised_not_found", "raised_read", "raised_key"}

\* The participant_id cell of line i of participants.tsv.
ParticipantIdOfLine(i) ==
    LET j == CHOOSE j \in DOMAIN participants.header :
               participants.header[j] = "participant_id"
    IN participants.lines[i][j]

\* C4: once dataset_summary.csv is written it has one row per line of
\* participants.tsv, in the same order, row i carrying line i's
\* participant_id (so a repeated id is repeated, an id without a metrics file
\* is kept, and a metrics file without a participants line adds nothing);
\* before that no summary exists.
C4_OneRowPerParticipant ==
    /\ SummaryWritten =>
         /\ Len(summary_csv.rows) = Len(participants.lines)
         /\ \A i \in DOMAIN summary_csv.rows :
              summary_csv.rows[i].participant_id = ParticipantIdOfLine(i)
    /\ ~SummaryWritten => summary_csv = NoSummary

\* A summary of two rows for the same participant without a metrics file,
\* while sub-10's metrics file lies in the directory and has no row.
C4_Witness ==
    /\ spc = "done"
    /\ Len(summary_csv.rows) = 2
    /\ summary_csv.rows[1].participant_id = Text(SubUpper)
    /\ summary_csv.rows[2].participant_id = Text(SubUpper)
    /\ ~summary_csv.rows[1].metrics_exists
    /\ metrics_tsv(Sub10) \in DOMAIN disk

\* The path of the metrics file of the participant of a row.
MetricsPathOf(row) ==
    PROJECT_ROOT
    \o <<ds000246_mri, <<"derivatives">>, <<"mri_pipeline">>, <<"metrics">>>>
    \o <<row.participant_id.s \o <<"_tissue_volumes.tsv">>>>

\* C5: in every row, qc_pass equals metrics_exists, and metrics_exists tells
\* whether metrics/<participant_id>_tissue_volumes.tsv exists, whatever the
\* file holds.
C5_QcRule ==
    \A i \in DOMAIN rows :
       /\ rows[i].qc_pass = rows[i].metrics_exists
       /\ rows[i].metrics_exists = (MetricsPathOf(rows[i]) \in DOMAIN disk)

\* A row passes QC although its metrics file could not be parsed.
C5_Witness ==
    \E i \in DOMAIN rows :
       /\ rows[i].qc_pass
       /\ rows[i].CSF = NotApplicable
       /\ disk[MetricsPathOf(rows[i])] = EmptyFile

\* The cell of a tissue column in the first line of a metrics file, a missing
\* value when the file has no such column.
FirstLineCell(file, col) ==
    IF \E j \in DOMAIN file.header : file.header[j] = col
    THEN file.lines[1][CHOOSE j \in DOMAIN file.header : file.header[j] = col]
    ELSE NA

\* C9: a row whose metrics file exists has all three of CSF, GM, WM: either
\* the three values of the file's first line (a missing value for a missing
\* column), when the file can be read, has a line and none of the three cells
\* is text, or else three times "n/a"; a row whose metrics file does not exist
\* has none of the three keys; the script raises only over participants.tsv,
\* before any row, and otherwise processes every line.
C9_AllOrNothingParsing ==
    /\ \A i \in DOMAIN rows :
         LET r == rows[i] IN
         IF r.metrics_exists
         THEN /\ TissueNames \subseteq DOMAIN r
              /\ LET file == disk[MetricsPathOf(r)]
                     parses == /\ file.header # <<>>
                               /\ Len(file.lines) >= 1
                               /\ \A c \in TissueNames : FirstLineCell(file, c).t # "str"
                 IN IF parses
                    THEN \A c \in TissueNames :
                           r[c] = FirstLineCell(file, c) /\ r[c].t \in {"num", "na"}
                    ELSE \A c \in TissueNames : r[c] = NotApplicable
         ELSE DOMAIN r \cap TissueNames = {}
    /\ RaisedBeforeLoopEnd =>
         /\ rows = <<>>
         /\ \/ participants = NoFile
            \/ participants.header = <<>>
            \/ "participant_id" \notin Range(participants.header)
    /\ SummaryWritten => Len(rows) = Len(participants.lines)

\* CSF was read as a number, GM was text: the row ends with three "n/a", and
\* the next participant is processed.
C9_Witness ==
    /\ Len(rows) = 2
    /\ rows[1].participant_id = Text(Sub2)
    /\ rows[1].metrics_exists
    /\ rows[2].metrics_exists
    /\ Len(disk[metrics_tsv(Sub2)].lines) >= 1
    /\ rows[1].CSF = NotApplicable
    /\ rows[1].WM = NotApplicable
    /\ FirstLineCell(disk[metrics_tsv(Sub2)], "CSF").t = "num"
    /\ FirstLineCell(disk[metrics_tsv(Sub2)], "GM").t = "str"
    /\ rows[2].participant_id = Text(Sub10)
    /\ rows[2].GM.t = "num"

(***************************************************************************)
(* Property of compute_tissue_volumes, checked under SpecVolumes.          *)
(***************************************************************************)
\* C7: after the call, <subject_id>_tissue_volumes.tsv in the output
\* directory has one line; for a non-empty list it holds subject_id and, for
\* CSF, GM, WM, the number of voxels of the last file equal to 0, 1, 2 times
\* that file's voxel volume; for an empty list it holds subject_id only.
C7_VoxelCounting ==
    seg_input.returned = <<"returned">> =>
      LET out == seg_input.output_dir
                 \o <<seg_input.subject_id \o <<"_tissue_volumes.tsv">>>>
          n == Len(seg_input.files)
      IN /\ out \in DOMAIN disk
         /\ Len(disk[out].lines) = 1
         /\ IF n = 0
            THEN /\ disk[out].header = <<"subject_id">>
                 /\ disk[out].lines[1] = <<Text(seg_input.subject_id)>>
            ELSE LET last == niftis[seg_input.files[n]]
                     size == last.zooms[1] * last.zooms[2] * last.zooms[3]
                     vol(label) ==
                       Cardinality({v \in DOMAIN last.data : last.data[v] = label}) * size
                 IN /\ disk[out].header = <<"subject_id", "CSF", "GM", "WM">>
                    /\ disk[out].lines[1] =
                         <<Text(seg_input.subject_id), Num(vol(0)), Num(vol(1)), Num(vol(2))>>

\* Two files: the first holds no GM voxel, the last holds two of volume 6
\* each, and the file written reports GM = 12.
C7_Witness ==
    /\ seg_input.returned = <<"returned">>
    /\ Len(seg_input.files) = 2
    /\ niftis[seg_input.files[1]].data = <<0, 2>>
    /\ niftis[seg_input.files[2]].data = <<1, 1>>
    /\ niftis[seg_input.files[2]].zooms = <<2, 1, 3>>
    /\ disk[output_dir(ProjectRoot) \o <<MetricsFileName(Sub2)>>].lines[1][3] = Num(12)

(***************************************************************************)
(* Hand-off from the pipeline to the summary, checked under SpecHandoff.   *)
(***************************************************************************)
\* C10: a row of the summary for a participant whose volume extraction has
\* completed in the pipeline has metrics_exists true, was looked up at the
\* path the pipeline wrote, and carries the CSF, GM and WM the pipeline wrote.
C10_HandOff ==
    \A i \in DOMAIN rows :
       \A k \in DOMAIN status :
          (/\ k[2] = "volume_extraction"
           /\ status[k] = "done"
           /\ rows[i].participant_id = Text(k[1]))
          => /\ MetricsPathOf(rows[i]) = node_outputs[k].out_file
             /\ rows[i].metrics_exists
             /\ \A c \in TissueNames :
                  /\ c \in DOMAIN rows[i]
                  /\ rows[i][c] = FirstLineCell(disk[node_outputs[k].out_file], c)

====
